---- MODULE Spec2Model ----
(***************************************************************************)
(* Model of PDFProcessor (src/pdf_processor.py): process_pdf and the       *)
(* methods it calls, as a state machine over the positions of process_pdf. *)
(*                                                                         *)
(* Python strings are sequences of one-character strings; Python's None is *)
(* the value None below, which is no sequence of characters.  Polygon      *)
(* coordinates are floats in the source: the model keeps them in half      *)
(* pixels, so that int() truncates.  The PDF, the partitioner, the vision  *)
(* model and the file system are the environment: what they answer is      *)
(* drawn from small sets, and is the same in every run over the same PDF.  *)
(***************************************************************************)
EXTENDS Integers, Sequences, FiniteSets, TLC

\* ---------------------------------------------------------------- bounds
MaxElems == 2
MaxPages == 1
MaxRuns == 2
PageWidth == 100
PageHeight == 100

\* ------------------------------------------------------ program constants
PADDING == 10
MIN_WIDTH == 50
MIN_HEIGHT == 50
PCT_CONVERT == 10
PCT_EXTRACT == 20
PCT_PROCESS == 30
PCT_SPAN == 60
PCT_FINAL == 100

\* ------------------------------------------------------- values and text
None == <<"None">>

\* The characters str.strip() removes: those for which str.isspace() holds.
\* Tab, line feed, form feed, carriage return and space are written as such;
\* the others are written as the character itself where a string can hold
\* it (up to U+1680), and all of them also by their Python escape.
Whitespace ==
  { "\t", "\n", "\f", "\r", " ",
    "", "", "", "", "", "", " ", " ",
    "\\x0b", "\\x1c", "\\x1d", "\\x1e", "\\x1f", "\\x85",
    "\\xa0", "\\u1680", "\\u2000", "\\u2001", "\\u2002", "\\u2003",
    "\\u2004", "\\u2005", "\\u2006", "\\u2007", "\\u2008", "\\u2009",
    "\\u200a", "\\u2028", "\\u2029", "\\u202f", "\\u205f", "\\u3000" }

RECURSIVE LStrip(_)
LStrip(s) ==
  IF s = <<>> THEN <<>>
  ELSE IF Head(s) \in Whitespace THEN LStrip(Tail(s)) ELSE s

RECURSIVE RStrip(_)
RStrip(s) ==
  IF s = <<>> THEN <<>>
  ELSE IF s[Len(s)] \in Whitespace THEN RStrip(SubSeq(s, 1, Len(s) - 1)) ELSE s

\* str.strip()
Strip(s) == RStrip(LStrip(s))

\* truthiness of a Python str
Truthy(s) == s # <<>>

ImageExtractionFailed ==
  <<"I","m","a","g","e"," ","d","e","s","c","r","i","p","t","i","o","n",":"," ","[","E","x","t","r","a","c","t","i","o","n"," ","f","a","i","l","e","d","]">>

FormulaExtractionFailed ==
  <<"F","o","r","m","u","l","a"," ","d","e","s","c","r","i","p","t","i","o","n",":"," ","[","E","x","t","r","a","c","t","i","o","n"," ","f","a","i","l","e","d","]">>

ImageEncodingFailed ==
  <<"I","m","a","g","e"," ","d","e","s","c","r","i","p","t","i","o","n",":"," ","[","E","n","c","o","d","i","n","g"," ","f","a","i","l","e","d","]">>

FormulaEncodingFailed ==
  <<"F","o","r","m","u","l","a"," ","d","e","s","c","r","i","p","t","i","o","n",":"," ","[","E","n","c","o","d","i","n","g"," ","f","a","i","l","e","d","]">>

ImageProcessingFailed ==
  <<"I","m","a","g","e"," ","d","e","s","c","r","i","p","t","i","o","n",":"," ","[","P","r","o","c","e","s","s","i","n","g"," ","f","a","i","l","e","d","]">>

FormulaProcessingFailed ==
  <<"F","o","r","m","u","l","a"," ","d","e","s","c","r","i","p","t","i","o","n",":"," ","[","P","r","o","c","e","s","s","i","n","g"," ","f","a","i","l","e","d","]">>

\* ------------------------------------------------------------- geometry
SetMin(S) == CHOOSE m \in S : \A x \in S : m <= x
SetMax(S) == CHOOSE m \in S : \A x \in S : m >= x
Min2(a, b) == IF a <= b THEN a ELSE b
Max2(a, b) == IF a >= b THEN a ELSE b

\* int() of a float given in half pixels: truncation toward zero
ToInt(h) == IF h >= 0 THEN h \div 2 ELSE 0 - ((0 - h) \div 2)

\* lines 99-111: the polygon's bounding box, padded and clamped to the page
CropBox(points, size) ==
  LET xs == {points[i][1] : i \in DOMAIN points}
      ys == {points[i][2] : i \in DOMAIN points}
  IN  [left   |-> Max2(0, ToInt(SetMin(xs)) - PADDING),
       right  |-> Min2(size[1], ToInt(SetMax(xs)) + PADDING),
       top    |-> Max2(0, ToInt(SetMin(ys)) - PADDING),
       bottom |-> Min2(size[2], ToInt(SetMax(ys)) + PADDING)]

\* the validation without the minimum size
CropValidNoMinimum(b) ==
  /\ b.right > b.left
  /\ b.bottom > b.top

\* line 115: the crop is taken only if this holds
CropValid(b) ==
  /\ b.right > b.left
  /\ b.bottom > b.top
  /\ (b.right - b.left) > MIN_WIDTH
  /\ (b.bottom - b.top) > MIN_HEIGHT

\* line 88
PageIndex(page_number) == (IF page_number = 0 THEN 1 ELSE page_number) - 1

\* lines 83-115: does extract_and_enhance_image reach the crop for this
\* element?  A missing polygon or an out-of-range page returns None first.
ReachesCrop(el, images) ==
  /\ el.points # <<>>
  /\ PageIndex(el.page_number) < Len(images)
  /\ CropValid(CropBox(el.points, images[PageIndex(el.page_number) + 1]))

\* ----------------------------------------------------------------- inputs
\* polygons, in half pixels
BigBox == << <<21, 21>>, <<161, 21>>, <<161, 161>>, <<21, 161>> >>
NarrowBox == << <<20, 20>>, <<61, 20>>, <<61, 160>>, <<20, 160>> >>
Exact50Box == << <<40, 40>>, <<101, 40>>, <<101, 160>>, <<40, 160>> >>
NoPoints == <<>>

Elem(t, p, txt, html, pts) ==
  [type |-> t, page_number |-> p, text |-> txt, text_as_html |-> html, points |-> pts]

ElementPool ==
  { Elem("Title", 1, <<"\t", "a", "\n">>, None, NoPoints),
    Elem("NarrativeText", 1, <<" ", "\n">>, None, NoPoints),
    Elem("Table", 1, <<"a">>, <<" ", "<", "t", ">", "\n">>, NoPoints),
    Elem("Table", 1, <<>>, None, NoPoints),
    Elem("Image", 1, <<>>, None, BigBox),
    Elem("Image", 1, <<"a">>, None, NarrowBox),
    Elem("Image", MaxPages + 1, <<>>, None, BigBox),
    Elem("Image", 1, <<>>, None, Exact50Box),
    Elem("Formula", 1, <<>>, None, BigBox),
    Elem("Formula", 1, <<"a", " ">>, None, NoPoints) }

RECURSIVE SeqsUpTo(_, _)
SeqsUpTo(S, n) ==
  IF n = 0 THEN {<<>>}
  ELSE LET shorter == SeqsUpTo(S, n - 1)
       IN  shorter \cup {Append(s, x) : s \in {t \in shorter : Len(t) = n - 1}, x \in S}

\* what the PDF is: whether it rasterizes and into how many pages, whether
\* it partitions and into which elements
Pdfs ==
  [rasterOK : {TRUE}, pages : 1..MaxPages, partitionOK : {TRUE},
   elements : SeqsUpTo(ElementPool, MaxElems)]
  \cup [rasterOK : {FALSE}, pages : {1}, partitionOK : {TRUE}, elements : {<<>>}]
  \cup [rasterOK : {TRUE}, pages : {1}, partitionOK : {FALSE}, elements : {<<>>}]

\* what the file system and the vision model do for one cropped element
Outcome(sv, enc, rs, rep, ul) ==
  [save |-> sv, encode |-> enc, raises |-> rs, reply |-> rep, unlink |-> ul]

FigureText == <<"F", "i", "g">>
BlankReply == <<"\n">>

Outcomes ==
  { Outcome(FALSE, TRUE, FALSE, FigureText, TRUE),
    Outcome(TRUE, FALSE, FALSE, FigureText, TRUE),
    Outcome(TRUE, TRUE, TRUE, FigureText, TRUE),
    Outcome(TRUE, TRUE, FALSE, None, TRUE),
    Outcome(TRUE, TRUE, FALSE, BlankReply, TRUE),
    Outcome(TRUE, TRUE, FALSE, FigureText, TRUE),
    Outcome(TRUE, TRUE, FALSE, FigureText, FALSE) }

Unset == [unset |-> TRUE]

Callbacks == {"none", "ok", "raises"}

NoItem == [type |-> "", page |-> 0, content |-> <<>>, metadata |-> [k \in {} |-> 0]]

\* a temporary file's path is the set of its one name; no path is None
NoPath == {}
Path(n) == {n}

\* ------------------------------------------------------------------ state
VARIABLES
  process_images, process_formulas, process_tables, \* the three flags
  progress_callback,  \* "none": not supplied; "ok"; "raises": may raise when called
  pdf,                \* the PDF at pdf_path
  env,                \* what file system and vision model did per element, once known
  pdf_images,         \* self.pdf_images: the page sizes
  pc,                 \* position in process_pdf
  elements, extracted_content, image_counter, idx, content_item, temp_image_path,
  origin,             \* for each record of extracted_content, the index of its element
  tempFiles,          \* region-extraction temporary files on disk
  created,            \* temporary files created by the current run
  nextTemp,           \* names handed out by NamedTemporaryFile so far
  extractCalls,       \* indices for which extract_and_enhance_image was called, this run
  visionCalls,        \* indices for which the vision model was called, this run
  progressLog,        \* percentages passed to the callback this run, as <<num, den>>
  error,              \* what process_pdf raised, "" if nothing
  run,                \* number of the current call of process_pdf on this processor
  prevResult,         \* how the previous call ended
  phase,              \* the phase of the run: Rasterizing, Partitioning,
                      \* ProcessingElements or Finalized
  perturbed           \* indices of the elements whose environment answer was
                      \* changed between the previous run and this one

inputs == <<process_images, process_formulas, process_tables, progress_callback, pdf>>
locals == <<elements, extracted_content, image_counter, idx, content_item, temp_image_path, origin>>
files == <<tempFiles, created, nextTemp>>
calls == <<extractCalls, visionCalls>>
vars == <<inputs, env, pdf_images, pc, locals, files, calls, progressLog, error, run, prevResult,
          phase, perturbed>>

NoResult == [returned |-> FALSE, content |-> <<>>, origin |-> <<>>]

Init ==
  /\ process_images \in BOOLEAN
  /\ process_formulas \in BOOLEAN
  /\ process_tables \in BOOLEAN
  /\ progress_callback \in Callbacks
  /\ pdf \in Pdfs
  /\ env = [i \in 1..MaxElems |-> Unset]
  /\ pdf_images = <<>>
  /\ pc = "start"
  /\ elements = <<>>
  /\ extracted_content = <<>>
  /\ image_counter = 0
  /\ idx = 0
  /\ content_item = NoItem
  /\ temp_image_path = NoPath
  /\ origin = <<>>
  /\ tempFiles = {}
  /\ created = {}
  /\ nextTemp = 0
  /\ extractCalls = {}
  /\ visionCalls = {}
  /\ progressLog = <<>>
  /\ error = ""
  /\ run = 1
  /\ prevResult = NoResult
  /\ phase = "Rasterizing"
  /\ perturbed = {}

\* ------------------------------------------------------------- progress
\* a percentage is the fraction <<num, den>>
Pct(n) == <<n, 1>>

\* the interpolation without its base of 30
LoopProgressNoBase(i, total) == <<i * PCT_SPAN, total>>

\* line 276: 30 + (idx / total_elements) * 60
LoopProgress(i, total) == <<PCT_PROCESS * total + i * PCT_SPAN, total>>

\* `if progress_callback: progress_callback(msg, v)` when the callback returns
Reported(log, v) == IF progress_callback = "none" THEN log ELSE Append(log, v)

\* the value the callback is about to be called with at the current position
PendingProgress ==
  CASE pc = "start" -> Pct(PCT_CONVERT)
    [] pc = "report_extracting" -> Pct(PCT_EXTRACT)
    [] pc = "report_processing" -> Pct(PCT_PROCESS)
    [] pc = "loop" /\ idx < Len(elements) -> LoopProgress(idx, Len(elements))
    [] OTHER -> Pct(PCT_FINAL)

AtCallback ==
  pc \in {"start", "report_extracting", "report_processing", "loop"}

\* the callback raises: the exception leaves process_pdf
CallbackRaises ==
  /\ AtCallback
  /\ progress_callback = "raises"
  /\ progressLog' = Append(progressLog, PendingProgress)
  /\ pc' = "raised"
  /\ error' = "CallbackError"
  /\ UNCHANGED <<inputs, env, pdf_images, locals, files, calls, run, prevResult, phase, perturbed>>

\* ------------------------------------------------- rasterize and partition
\* lines 245-246
ReportConverting ==
  /\ pc = "start"
  /\ progressLog' = Reported(progressLog, Pct(PCT_CONVERT))
  /\ pc' = "rasterize"
  /\ UNCHANGED <<inputs, env, pdf_images, locals, files, calls, error, run, prevResult, phase, perturbed>>

\* convert_from_path at 200 dpi: one page size per page
RasterizedPages(d) == [p \in 1..d.pages |-> <<PageWidth, PageHeight>>]

\* a rasterization failure that is logged and not raised again
ConvertPdfToImagesSwallowed ==
  /\ pc = "rasterize"
  /\ IF pdf.rasterOK
       THEN /\ pdf_images' = RasterizedPages(pdf)
            /\ error' = error
            /\ phase' = "Partitioning"
       ELSE /\ pdf_images' = pdf_images
            /\ error' = "RasterizationError"
            /\ phase' = phase
  /\ pc' = "report_extracting"
  /\ UNCHANGED <<inputs, env, locals, files, calls, progressLog, run, prevResult, perturbed>>

\* lines 69-78 called from line 249
ConvertPdfToImages ==
  /\ pc = "rasterize"
  /\ IF pdf.rasterOK
       THEN /\ pdf_images' = RasterizedPages(pdf)
            /\ pc' = "report_extracting"
            /\ error' = error
            /\ phase' = "Partitioning"
       ELSE /\ pdf_images' = pdf_images
            /\ pc' = "raised"
            /\ error' = "RasterizationError"
            /\ phase' = phase
  /\ UNCHANGED <<inputs, env, locals, files, calls, progressLog, run, prevResult, perturbed>>

\* lines 251-252
ReportExtracting ==
  /\ pc = "report_extracting"
  /\ progressLog' = Reported(progressLog, Pct(PCT_EXTRACT))
  /\ pc' = "partition"
  /\ UNCHANGED <<inputs, env, pdf_images, locals, files, calls, error, run, prevResult, phase, perturbed>>

\* a partitioner failure that is logged and swallowed
PartitionPdfSwallowed ==
  /\ pc = "partition"
  /\ IF pdf.partitionOK
       THEN /\ elements' = pdf.elements
            /\ error' = error
       ELSE /\ elements' = <<>>
            /\ error' = "PartitionError"
  /\ pc' = "report_processing"
  /\ phase' = "ProcessingElements"
  /\ UNCHANGED <<inputs, env, pdf_images, extracted_content, image_counter, idx,
                 content_item, temp_image_path, origin, files, calls, progressLog,
                 run, prevResult, perturbed>>

\* lines 255-260
PartitionPdf ==
  /\ pc = "partition"
  /\ IF pdf.partitionOK
       THEN /\ elements' = pdf.elements
            /\ pc' = "report_processing"
            /\ error' = error
            /\ phase' = "ProcessingElements"
       ELSE /\ elements' = elements
            /\ pc' = "raised"
            /\ error' = "PartitionError"
            /\ phase' = phase
  /\ UNCHANGED <<inputs, env, pdf_images, extracted_content, image_counter, idx,
                 content_item, temp_image_path, origin, files, calls, progressLog,
                 run, prevResult, perturbed>>

\* the counter kept from the previous call
CarriedCounter(old) == old

\* line 267
FreshCounter(old) == 0

\* lines 262-268
ReportProcessing ==
  /\ pc = "report_processing"
  /\ progressLog' = Reported(progressLog, Pct(PCT_PROCESS))
  /\ extracted_content' = <<>>
  /\ origin' = <<>>
  /\ image_counter' = FreshCounter(image_counter)
  /\ idx' = 0
  /\ pc' = "loop"
  /\ UNCHANGED <<inputs, env, pdf_images, elements, content_item, temp_image_path,
                 files, calls, error, run, prevResult, phase, perturbed>>

\* ------------------------------------------------------- the element loop
InLoop == pc = "loop" /\ idx < Len(elements)

\* the element of this iteration (idx counts from 0)
Element == elements[idx + 1]

\* lines 279-284, with lines 271-272
NewItem(el) ==
  [type |-> el.type, page |-> el.page_number, content |-> <<>>, metadata |-> [k \in {} |-> 0]]

\* the dispatch with the Image branch taken whatever process_images says
BranchImagesAlways(el) ==
  CASE el.type = "Title" -> "title"
    [] el.type = "Table" /\ process_tables -> "table"
    [] el.type = "Image" -> "image"
    [] el.type = "Formula" /\ process_formulas -> "formula"
    [] OTHER -> "text"

\* which branch of lines 286-328 an element takes
Branch(el) ==
  CASE el.type = "Title" -> "title"
    [] el.type = "Table" /\ process_tables -> "table"
    [] el.type = "Image" /\ process_images -> "image"
    [] el.type = "Formula" /\ process_formulas -> "formula"
    [] OTHER -> "text"

\* the table HTML trimmed like the text of the other branches
TableContentTrimmed(el) == Strip(el.text_as_html)

\* line 291
TableContent(el) == el.text_as_html

\* line 328
TextContent(el) == Strip(el.text)

\* lines 270-288
ProcessTitle ==
  /\ InLoop
  /\ Branch(Element) = "title"
  /\ progressLog' = Reported(progressLog, LoopProgress(idx, Len(elements)))
  /\ content_item' = [NewItem(Element) EXCEPT !.content = Strip(Element.text),
                                              !.metadata = [level |-> "title"]]
  /\ pc' = "filter"
  /\ UNCHANGED <<inputs, env, pdf_images, elements, extracted_content, image_counter,
                 idx, temp_image_path, origin, files, calls, error, run, prevResult, phase, perturbed>>

\* lines 270-284 and 290-292
ProcessTable ==
  /\ InLoop
  /\ Branch(Element) = "table"
  /\ progressLog' = Reported(progressLog, LoopProgress(idx, Len(elements)))
  /\ content_item' = [NewItem(Element) EXCEPT !.content = TableContent(Element),
                                              !.metadata = [format |-> "html"]]
  /\ pc' = "filter"
  /\ UNCHANGED <<inputs, env, pdf_images, elements, extracted_content, image_counter,
                 idx, temp_image_path, origin, files, calls, error, run, prevResult, phase, perturbed>>

\* the text branch reserving an identifier for a disabled Image or Formula
ProcessTextCounting ==
  /\ InLoop
  /\ Branch(Element) = "text"
  /\ progressLog' = Reported(progressLog, LoopProgress(idx, Len(elements)))
  /\ content_item' = [NewItem(Element) EXCEPT !.content = TextContent(Element)]
  /\ pc' = "filter"
  /\ image_counter' = IF Element.type \in {"Image", "Formula"} THEN image_counter + 1
                                                              ELSE image_counter
  /\ UNCHANGED <<inputs, env, pdf_images, elements, extracted_content,
                 idx, temp_image_path, origin, files, calls, error, run, prevResult, phase, perturbed>>

\* lines 270-284 and 326-328
ProcessText ==
  /\ InLoop
  /\ Branch(Element) = "text"
  /\ progressLog' = Reported(progressLog, LoopProgress(idx, Len(elements)))
  /\ content_item' = [NewItem(Element) EXCEPT !.content = TextContent(Element)]
  /\ pc' = "filter"
  /\ UNCHANGED <<inputs, env, pdf_images, elements, extracted_content, image_counter,
                 idx, temp_image_path, origin, files, calls, error, run, prevResult, phase, perturbed>>

\* lines 270-284, up to the call of extract_and_enhance_image (296 or 312)
BeginVisual ==
  /\ InLoop
  /\ Branch(Element) \in {"image", "formula"}
  /\ progressLog' = Reported(progressLog, LoopProgress(idx, Len(elements)))
  /\ content_item' = NewItem(Element)
  /\ pc' = "extract"
  /\ UNCHANGED <<inputs, env, pdf_images, elements, extracted_content, image_counter,
                 idx, temp_image_path, origin, files, calls, error, run, prevResult, phase, perturbed>>

ExtractionFailed(kind) ==
  IF kind = "image" THEN ImageExtractionFailed ELSE FormulaExtractionFailed

\* what the environment does for the element at hand: as before if it has
\* already been asked about this element
OutcomesHere == IF env[idx + 1] = Unset THEN Outcomes ELSE {env[idx + 1]}

\* the counter moved only when an artifact was described
NoArtifactNoCount ==
  /\ content_item' = [content_item EXCEPT !.content = ExtractionFailed(Branch(Element))]
  /\ temp_image_path' = NoPath
  /\ image_counter' = image_counter
  /\ pc' = "filter"

\* lines 305-308 and 321-324: no artifact, the sentinel is the content
NoArtifact ==
  /\ content_item' = [content_item EXCEPT !.content = ExtractionFailed(Branch(Element))]
  /\ temp_image_path' = NoPath
  /\ image_counter' = image_counter + 1
  /\ pc' = "filter"

\* lines 134-136: NamedTemporaryFile(delete=False) creates the file; save may
\* then raise, which leaves the file and returns None (lines 144-146)
SaveArtifact(o) ==
  /\ tempFiles' = tempFiles \cup {nextTemp + 1}
  /\ created' = created \cup {nextTemp + 1}
  /\ nextTemp' = nextTemp + 1
  /\ IF o.save
       THEN /\ temp_image_path' = Path(nextTemp + 1)
            /\ UNCHANGED <<content_item, image_counter>>
            /\ pc' = "describe"
       ELSE NoArtifact

\* lines 80-146, called from line 296 or 312, with lines 298 and 305-308
ExtractAndEnhanceImage ==
  /\ pc = "extract"
  /\ extractCalls' = extractCalls \cup {idx}
  /\ IF ReachesCrop(Element, pdf_images)
       THEN \E o \in OutcomesHere :
              /\ env' = [env EXCEPT ![idx + 1] = o]
              /\ SaveArtifact(o)
       ELSE /\ NoArtifact
            /\ UNCHANGED <<env, files>>
  /\ UNCHANGED <<inputs, pdf_images, elements, extracted_content, idx, origin,
                 visionCalls, progressLog, error, run, prevResult, phase, perturbed>>

\* a describer that answers a failure with the empty string
DescriptionEmptyOnFailure(kind, o) ==
  IF ~o.encode \/ o.raises THEN <<>> ELSE o.reply

\* lines 157-192 and 194-229: what generate_*_description returns
Description(kind, o) ==
  IF ~o.encode
    THEN (IF kind = "image" THEN ImageEncodingFailed ELSE FormulaEncodingFailed)
    ELSE IF o.raises
      THEN (IF kind = "image" THEN ImageProcessingFailed ELSE FormulaProcessingFailed)
      ELSE o.reply

\* lines 164 and 201: the request is sent only if the file could be encoded
CallsVisionModel(o) == o.encode

IdKey(kind, n) == IF kind = "image" THEN [image_id |-> n] ELSE [formula_id |-> n]

Describe(kind) ==
  /\ pc = "describe"
  /\ Branch(Element) = kind
  /\ visionCalls' = IF CallsVisionModel(env[idx + 1]) THEN visionCalls \cup {idx}
                                                       ELSE visionCalls
  /\ content_item' = [content_item EXCEPT !.content = Description(kind, env[idx + 1]),
                                          !.metadata = IdKey(kind, image_counter)]
  /\ pc' = "cleanup"
  /\ UNCHANGED <<inputs, env, pdf_images, elements, extracted_content, image_counter,
                 idx, temp_image_path, origin, files, extractCalls, progressLog,
                 error, run, prevResult, phase, perturbed>>

\* lines 299-301
GenerateImageDescription == Describe("image")

\* lines 315-317
GenerateFormulaDescription == Describe("formula")

\* lines 231-238: the file is gone unless os.unlink raised
Unlinked(disk, path, o) == IF o.unlink THEN disk \ path ELSE disk

\* the cleanup without the increment that follows it
CleanupTempFileNoCount ==
  /\ pc = "cleanup"
  /\ tempFiles' = Unlinked(tempFiles, temp_image_path, env[idx + 1])
  /\ image_counter' = image_counter
  /\ pc' = "filter"
  /\ UNCHANGED <<inputs, env, pdf_images, elements, extracted_content, idx,
                 content_item, temp_image_path, origin, created, nextTemp, calls,
                 progressLog, error, run, prevResult, phase, perturbed>>

\* lines 304 and 308, or 320 and 324
CleanupTempFile ==
  /\ pc = "cleanup"
  /\ tempFiles' = Unlinked(tempFiles, temp_image_path, env[idx + 1])
  /\ image_counter' = image_counter + 1
  /\ pc' = "filter"
  /\ UNCHANGED <<inputs, env, pdf_images, elements, extracted_content, idx,
                 content_item, temp_image_path, origin, created, nextTemp, calls,
                 progressLog, error, run, prevResult, phase, perturbed>>

\* the record put in front instead of at the end
PrependRecord(list, item) == <<item>> \o list

\* line 332
AppendRecord(list, item) == Append(list, item)

\* the filter without the trim
KeepsUntrimmed(item) == Truthy(item.content)

\* line 331
Keeps(item) == Truthy(Strip(item.content))

\* lines 330-332: None has no strip(), the AttributeError leaves process_pdf
FilterRecord ==
  /\ pc = "filter"
  /\ IF content_item.content = None
       THEN /\ pc' = "raised"
            /\ error' = "AttributeError"
            /\ UNCHANGED <<extracted_content, origin, idx>>
       ELSE /\ pc' = "loop"
            /\ error' = error
            /\ idx' = idx + 1
            /\ IF Keeps(content_item)
                 THEN /\ extracted_content' = AppendRecord(extracted_content, content_item)
                      /\ origin' = AppendRecord(origin, idx)
                 ELSE UNCHANGED <<extracted_content, origin>>
  /\ UNCHANGED <<inputs, env, pdf_images, elements, image_counter, content_item,
                 temp_image_path, files, calls, progressLog, run, prevResult, phase, perturbed>>

\* lines 334-338
Finalize ==
  /\ pc = "loop"
  /\ idx = Len(elements)
  /\ progressLog' = Reported(progressLog, Pct(PCT_FINAL))
  /\ pc' = "done"
  /\ phase' = "Finalized"
  /\ UNCHANGED <<inputs, env, pdf_images, locals, files, calls, error, run, prevResult, perturbed>>

\* ------------------------------------------------------------ the next run
Ended == pc \in {"done", "raised"}

\* process_pdf is called again on the same processor, with the same PDF, the
\* same flags and callback: self.pdf_images stays, the locals are a new frame
NextRun ==
  /\ Ended
  /\ run < MaxRuns
  /\ run' = run + 1
  /\ prevResult' = [returned |-> pc = "done", content |-> extracted_content,
                     origin |-> origin]
  /\ phase' = "Rasterizing"
  /\ perturbed' = {}
  /\ pc' = "start"
  /\ elements' = <<>>
  /\ extracted_content' = <<>>
  /\ origin' = <<>>
  /\ idx' = 0
  /\ content_item' = NoItem
  /\ temp_image_path' = NoPath
  /\ created' = {}
  /\ extractCalls' = {}
  /\ visionCalls' = {}
  /\ progressLog' = <<>>
  /\ error' = ""
  /\ UNCHANGED <<inputs, env, pdf_images, image_counter, tempFiles, nextTemp>>

Next ==
  \/ CallbackRaises
  \/ ReportConverting
  \/ ConvertPdfToImages
  \/ ReportExtracting
  \/ PartitionPdf
  \/ ReportProcessing
  \/ ProcessTitle
  \/ ProcessTable
  \/ ProcessText
  \/ BeginVisual
  \/ ExtractAndEnhanceImage
  \/ GenerateImageDescription
  \/ GenerateFormulaDescription
  \/ CleanupTempFile
  \/ FilterRecord
  \/ Finalize
  \/ NextRun

Spec == Init /\ [][Next]_vars

\* extraction or description of a cropped element fails under this answer
Fails(o) == ~o.save \/ ~o.encode \/ o.raises

\* process_pdf is called again with the same PDF, flags and callback, while
\* the environment answers differently for one element that was cropped: it
\* fails where it succeeded, or succeeds where it failed
NextRunPerturbed ==
  /\ Ended
  /\ run < MaxRuns
  /\ \E i \in {j \in 1..MaxElems : env[j] # Unset} :
       \E o \in Outcomes :
         /\ Fails(o) # Fails(env[i])
         /\ env' = [env EXCEPT ![i] = o]
         /\ perturbed' = {i - 1}
  /\ run' = run + 1
  /\ prevResult' = [returned |-> pc = "done", content |-> extracted_content,
                     origin |-> origin]
  /\ phase' = "Rasterizing"
  /\ pc' = "start"
  /\ elements' = <<>>
  /\ extracted_content' = <<>>
  /\ origin' = <<>>
  /\ idx' = 0
  /\ content_item' = NoItem
  /\ temp_image_path' = NoPath
  /\ created' = {}
  /\ extractCalls' = {}
  /\ visionCalls' = {}
  /\ progressLog' = <<>>
  /\ error' = ""
  /\ UNCHANGED <<inputs, pdf_images, image_counter, tempFiles, nextTemp>>

NextPerturbed ==
  \/ CallbackRaises
  \/ ReportConverting
  \/ ConvertPdfToImages
  \/ ReportExtracting
  \/ PartitionPdf
  \/ ReportProcessing
  \/ ProcessTitle
  \/ ProcessTable
  \/ ProcessText
  \/ BeginVisual
  \/ ExtractAndEnhanceImage
  \/ GenerateImageDescription
  \/ GenerateFormulaDescription
  \/ CleanupTempFile
  \/ FilterRecord
  \/ Finalize
  \/ NextRunPerturbed

\* two runs that differ in the failure of one element
SpecPerturbed == Init /\ [][NextPerturbed]_vars

TypeOK ==
  /\ pc \in {"start", "rasterize", "report_extracting", "partition", "report_processing",
             "loop", "extract", "describe", "cleanup", "filter", "done", "raised"}
  /\ idx \in 0..Len(elements)
  /\ image_counter \in Nat
  /\ Len(origin) = Len(extracted_content)
  /\ run \in 1..MaxRuns
  /\ phase \in {"Rasterizing", "Partitioning", "ProcessingElements", "Finalized"}

\* ================================================================ claims
Processed == IF pc = "done" THEN 0..(Len(elements) - 1) ELSE 0..(idx - 1)

RecordsOf(i) == {k \in DOMAIN origin : origin[k] = i}

\* C1: the result is a subsequence of the partitioner's elements: at most as
\* many records as elements, each record made from one element (its type and
\* page), and the records in the order of their elements, none twice.
C1_Subsequence ==
  /\ Len(extracted_content) <= Len(elements)
  /\ \A k \in DOMAIN extracted_content :
       /\ origin[k] \in 0..(Len(elements) - 1)
       /\ extracted_content[k].type = elements[origin[k] + 1].type
       /\ extracted_content[k].page = elements[origin[k] + 1].page_number
  /\ \A j, k \in DOMAIN origin : j < k => origin[j] < origin[k]

\* a returned result that kept a later element after dropping an earlier one
C1_Witness ==
  /\ pc = "done"
  /\ Len(extracted_content) >= 1
  /\ Len(extracted_content) < Len(elements)
  /\ origin[Len(origin)] = Len(elements) - 1

\* C2: at every point of the loop and in the returned list, no record has
\* content that is empty or only whitespace (nor None).
C2_NoBlankContent ==
  \A k \in DOMAIN extracted_content :
    /\ extracted_content[k].content # None
    /\ Strip(extracted_content[k].content) # <<>>

\* the filter has just dropped an item whose content was whitespace, not
\* empty, from a result that holds other records
C2_Witness ==
  /\ pc = "loop"
  /\ idx > 0
  /\ content_item.content # <<>>
  /\ content_item.content # None
  /\ Strip(content_item.content) = <<>>
  /\ extracted_content # <<>>

\* C3 (as claimed): once rasterization and partitioning have succeeded,
\* nothing about an element raises out of process_pdf; the only exceptions
\* that leave it are those of rasterization and partitioning (and of the
\* caller's own callback).
C3_OnlyFatalErrorsRaise ==
  (pc = "raised" /\ error # "CallbackError")
    => error \in {"RasterizationError", "PartitionError"}

\* C4: a failure of rasterization or of partitioning leaves process_pdf as an
\* exception, with no element processed, no record, no temporary file
\* created, no extraction, no vision-model call and 100 never reported.
C4_FatalNoPartialResult ==
  error \in {"RasterizationError", "PartitionError"} =>
    /\ pc = "raised"
    /\ idx = 0
    /\ extracted_content = <<>>
    /\ created = {}
    /\ extractCalls = {}
    /\ visionCalls = {}
    /\ \A n \in DOMAIN progressLog : progressLog[n] # Pct(PCT_FINAL)

\* the partitioner failed after the callback had been told 10 and 20
C4_Witness ==
  /\ pc = "raised"
  /\ error = "PartitionError"
  /\ Len(progressLog) = 2

\* C5 (as claimed): when a run has ended, by return or by exception, no
\* region-extraction temporary file is left on disk.
C5_NoTempFilesRemain == Ended => tempFiles = {}

\* comparison of percentages <<num, den>>, den > 0
PctLeq(a, b) == a[1] * b[2] <= b[1] * a[2]

\* C6: the percentages passed to the callback never decrease and lie in
\* [0, 100], and a run that returns with a callback has reported 100 last,
\* whatever the number of elements.
C6_Progress ==
  /\ \A n \in DOMAIN progressLog :
       /\ PctLeq(Pct(0), progressLog[n])
       /\ PctLeq(progressLog[n], Pct(PCT_FINAL))
  /\ \A m, n \in DOMAIN progressLog : m < n => PctLeq(progressLog[m], progressLog[n])
  /\ (pc = "done" /\ progress_callback # "none") =>
       /\ progressLog # <<>>
       /\ progressLog[Len(progressLog)] = Pct(PCT_FINAL)

\* a returned run over at least two elements whose callback was called in
\* the loop with a value strictly between 30 and 90
C6_Witness ==
  /\ pc = "done"
  /\ progress_callback = "ok"
  /\ Len(elements) >= 2
  /\ \E n \in DOMAIN progressLog :
       /\ ~PctLeq(progressLog[n], Pct(PCT_PROCESS))
       /\ ~PctLeq(Pct(PCT_PROCESS + PCT_SPAN), progressLog[n])

\* C7: with process_tables set, every Table record has the partitioner's HTML
\* of its element as content, untrimmed, and metadata.format "html".
C7_TableVerbatim ==
  process_tables =>
    \A k \in DOMAIN extracted_content :
      extracted_content[k].type = "Table" =>
        /\ extracted_content[k].content = elements[origin[k] + 1].text_as_html
        /\ extracted_content[k].metadata = [format |-> "html"]

\* a returned Table record whose HTML has whitespace around it
C7_Witness ==
  /\ pc = "done"
  /\ process_tables
  /\ \E k \in DOMAIN extracted_content :
       /\ extracted_content[k].type = "Table"
       /\ Strip(extracted_content[k].content) # extracted_content[k].content

\* the crop box of an element with a polygon on a rasterized page is below 50
\* pixels in width or in height
CropBelowMinimum(el, images) ==
  /\ el.points # <<>>
  /\ PageIndex(el.page_number) < Len(images)
  /\ LET b == CropBox(el.points, images[PageIndex(el.page_number) + 1])
     IN  \/ b.right - b.left < MIN_WIDTH
         \/ b.bottom - b.top < MIN_HEIGHT

\* C8: an Image or Formula element whose flag is set and whose padded and
\* clamped crop box is below 50 pixels in width or height has its record in
\* the result, with exactly the extraction-failed sentinel of its type as
\* content, and the vision model is not called for it.
C8_SmallCropSentinel ==
  \A i \in Processed :
    LET el == elements[i + 1] IN
    (Branch(el) \in {"image", "formula"} /\ CropBelowMinimum(el, pdf_images)) =>
      /\ i \notin visionCalls
      /\ \E k \in RecordsOf(i) :
           /\ extracted_content[k].type = el.type
           /\ extracted_content[k].content =
                (IF el.type = "Image" THEN ImageExtractionFailed ELSE FormulaExtractionFailed)

\* a returned run that extracted an enabled Image whose crop box is too narrow
C8_Witness ==
  /\ pc = "done"
  /\ \E i \in extractCalls :
       /\ elements[i + 1].type = "Image"
       /\ CropBelowMinimum(elements[i + 1], pdf_images)

\* C9 (as claimed): with process_images unset, no Image element appears in
\* the result.
C9_ImageAbsent ==
  ~process_images =>
    \A k \in DOMAIN extracted_content : extracted_content[k].type # "Image"

\* C9 (amended): with process_images unset an Image element is handled as
\* plain text: it is in the result exactly if its trimmed text is non-empty,
\* then with that text as content and no metadata; it is neither extracted
\* nor sent to the vision model, and no record carries an image_id.
C9_ImageAsText ==
  ~process_images =>
    /\ \A i \in Processed :
         elements[i + 1].type = "Image" =>
           /\ i \notin extractCalls
           /\ i \notin visionCalls
           /\ (RecordsOf(i) # {}) <=> (Strip(elements[i + 1].text) # <<>>)
           /\ \A k \in RecordsOf(i) :
                /\ extracted_content[k].content = Strip(elements[i + 1].text)
                /\ DOMAIN extracted_content[k].metadata = {}
    /\ \A k \in DOMAIN extracted_content :
         "image_id" \notin DOMAIN extracted_content[k].metadata

\* a returned run with process_images unset over an Image with text, kept,
\* while a Formula was described
C9_Witness ==
  /\ pc = "done"
  /\ ~process_images
  /\ \E k \in DOMAIN extracted_content : extracted_content[k].type = "Image"
  /\ visionCalls # {}

\* C10: a second call on the same processor, with the same PDF and flags and
\* the same answers of the environment, returns the list the first returned.
C10_SameResultAgain ==
  (run > 1 /\ pc = "done" /\ prevResult.returned) =>
    extracted_content = prevResult.content

\* a second run returned a described element whose id is not 0
C10_Witness ==
  /\ run = 2
  /\ pc = "done"
  /\ prevResult.returned
  /\ \E k \in DOMAIN extracted_content :
       /\ "formula_id" \in DOMAIN extracted_content[k].metadata
       /\ extracted_content[k].metadata.formula_id > 0

\* the element of index i is an enabled Image or Formula whose artifact was
\* produced in this run
ArtifactProduced(i) ==
  /\ Branch(elements[i + 1]) \in {"image", "formula"}
  /\ ReachesCrop(elements[i + 1], pdf_images)
  /\ env[i + 1] # Unset
  /\ env[i + 1].save

\* ... and whose description then failed: the file could not be encoded, or
\* the request to the model raised
DescriptionFailed(i) ==
  /\ ArtifactProduced(i)
  /\ (~env[i + 1].encode \/ env[i + 1].raises)

FailureSentinel(el, o) ==
  IF ~o.encode
    THEN (IF el.type = "Image" THEN ImageEncodingFailed ELSE FormulaEncodingFailed)
    ELSE (IF el.type = "Image" THEN ImageProcessingFailed ELSE FormulaProcessingFailed)

\* C11: when the artifact of an enabled Image or Formula element was produced
\* and its description fails, the describer returns the encoding-failed or
\* processing-failed sentinel of its kind instead of raising, the element's
\* record is in the result with that sentinel as content, and the loop goes
\* on to the later elements.
C11_DescriptionFailureAbsorbed ==
  /\ \A i \in Processed :
       DescriptionFailed(i) =>
         \E k \in RecordsOf(i) :
           /\ extracted_content[k].type = elements[i + 1].type
           /\ extracted_content[k].content = FailureSentinel(elements[i + 1], env[i + 1])
  /\ (pc \in {"cleanup", "filter"} /\ DescriptionFailed(idx)) =>
       content_item.content = FailureSentinel(Element, env[idx + 1])
  /\ (pc = "raised" /\ error = "AttributeError") => ~DescriptionFailed(idx)

\* a returned run in which the description of the first element failed and
\* the element after it was processed and kept
C11_Witness ==
  /\ pc = "done"
  /\ Len(elements) >= 2
  /\ DescriptionFailed(0)
  /\ RecordsOf(0) # {}
  /\ RecordsOf(1) # {}

RECURSIVE OthersFrom(_, _, _)
OthersFrom(res, org, k) ==
  IF k > Len(res) THEN <<>>
  ELSE IF org[k] \in perturbed THEN OthersFrom(res, org, k + 1)
  ELSE <<[element |-> org[k], record |-> res[k]]>> \o OthersFrom(res, org, k + 1)

\* the records of a result, each with the index of its element, without
\* those of the element whose failure differs between the two runs
Others(res, org) == OthersFrom(res, org, 1)

\* C12: of two runs over the same elements and flags that differ only in
\* whether extraction or description of one Image or Formula element fails,
\* the records of all other elements are the same (content, page, metadata
\* with image_id and formula_id) and in the same order.
C12_SiblingsUnaffected ==
  (run > 1 /\ pc = "done" /\ prevResult.returned) =>
    Others(extracted_content, origin) = Others(prevResult.content, prevResult.origin)

\* the first element failed in one run and not in the other, its record
\* differs, and the second element was described in both
C12_Witness ==
  /\ run = 2
  /\ pc = "done"
  /\ prevResult.returned
  /\ perturbed = {0}
  /\ extracted_content # prevResult.content
  /\ \E k \in RecordsOf(1) : DOMAIN extracted_content[k].metadata # {}

HasId(rec) == DOMAIN rec.metadata \cap {"image_id", "formula_id"} # {}

IdOf(rec) ==
  IF "image_id" \in DOMAIN rec.metadata THEN rec.metadata.image_id
  ELSE rec.metadata.formula_id

\* the identifiers of a result grow strictly along it: none is carried twice
IdsIncreasing(res) ==
  \A j, k \in DOMAIN res :
    (j < k /\ HasId(res[j]) /\ HasId(res[k])) => IdOf(res[j]) < IdOf(res[k])

LoopPositions == {"loop", "extract", "describe", "cleanup", "filter"}

\* C13: one counter gives image_id and formula_id: in every result no
\* identifier is carried by two records, of whichever types, and the
\* identifiers grow strictly in result order; within the element loop the
\* counter never decreases.
C13_SharedCounter ==
  [][ /\ IdsIncreasing(extracted_content')
      /\ (pc \in LoopPositions => image_counter' >= image_counter) ]_vars

\* a returned result with an Image record and a Formula record, both numbered
C13_Witness ==
  /\ pc = "done"
  /\ \E j, k \in DOMAIN extracted_content :
       /\ "image_id" \in DOMAIN extracted_content[j].metadata
       /\ "formula_id" \in DOMAIN extracted_content[k].metadata

\* the number of Image and Formula elements among the first n elements
VisualBefore(n) ==
  Cardinality({i \in 1..n : elements[i].type \in {"Image", "Formula"}})

\* ... of those whose flag is set
EnabledVisualBefore(n) ==
  Cardinality({i \in 1..n : Branch(elements[i]) \in {"image", "formula"}})

\* C14 (as claimed): the counter is incremented for every Image or Formula
\* element met in the loop, whatever its flag, so the identifier of a
\* described element is the number of Image and Formula elements before it.
C14_CountsEveryVisual ==
  /\ pc = "loop" => image_counter = VisualBefore(idx)
  /\ \A k \in DOMAIN extracted_content :
       HasId(extracted_content[k]) => IdOf(extracted_content[k]) = VisualBefore(origin[k])

\* C14 (amended): the counter is incremented for every Image or Formula
\* element whose flag is set, whether or not an artifact was produced, and
\* not for one whose flag is unset; the identifier of a described element is
\* the number of enabled Image and Formula elements before it.
C14_CountsEnabledVisual ==
  /\ pc = "loop" => image_counter = EnabledVisualBefore(idx)
  /\ \A k \in DOMAIN extracted_content :
       HasId(extracted_content[k]) =>
         IdOf(extracted_content[k]) = EnabledVisualBefore(origin[k])

\* a returned record numbered below the count of Image and Formula elements
\* before it, one of which had its flag unset
C14_Witness ==
  /\ pc = "done"
  /\ \E k \in DOMAIN extracted_content :
       /\ HasId(extracted_content[k])
       /\ IdOf(extracted_content[k]) < VisualBefore(origin[k])

Reports(v) == \E n \in DOMAIN progressLog : progressLog[n] = v

\* C15 (as claimed): 20 is reported only after partitioning has completed,
\* so a run that fails in partitioning never reports 20.
C15_TwentyAfterPartitioning ==
  Reports(Pct(PCT_EXTRACT)) => phase \in {"ProcessingElements", "Finalized"}

\* C15 (amended): 10 is reported before rasterization starts, 20 only after
\* rasterization has completed and before partitioning starts, 30 and above
\* only after partitioning has completed; a run that fails in rasterization
\* never reports 20, one that fails in partitioning has reported 20, not 30.
C15_CheckpointsAtPhaseStart ==
  /\ (pc = "rasterize" /\ progress_callback # "none") => progressLog = <<Pct(PCT_CONVERT)>>
  /\ Reports(Pct(PCT_EXTRACT)) => phase # "Rasterizing"
  /\ (pc = "partition" /\ progress_callback # "none") => Reports(Pct(PCT_EXTRACT))
  /\ \A n \in DOMAIN progressLog :
       PctLeq(Pct(PCT_PROCESS), progressLog[n]) =>
         phase \in {"ProcessingElements", "Finalized"}
  /\ error = "RasterizationError" => ~Reports(Pct(PCT_EXTRACT))
  /\ (error = "PartitionError" /\ progress_callback # "none") =>
       progressLog = <<Pct(PCT_CONVERT), Pct(PCT_EXTRACT)>>

\* 20 has been reported and partition_pdf has not been called yet
C15_Witness ==
  /\ pc = "partition"
  /\ phase = "Partitioning"
  /\ progressLog = <<Pct(PCT_CONVERT), Pct(PCT_EXTRACT)>>

\* C16 (as claimed): a run goes through Rasterizing, Partitioning,
\* ProcessingElements, Finalized in this order: partitioning starts only after
\* rasterization has completed, no element is processed and no vision-model
\* call is made before partitioning has completed, and the run ends in
\* Finalized or in an abort raised during Rasterizing or Partitioning (the
\* caller's callback apart).
C16_PhaseOrder ==
  /\ pc \in {"start", "rasterize"} => phase = "Rasterizing"
  /\ pc \in {"report_extracting", "partition"} => phase = "Partitioning"
  /\ pc \in {"report_processing"} \cup LoopPositions => phase = "ProcessingElements"
  /\ (idx > 0 \/ extractCalls # {} \/ visionCalls # {}) =>
       phase \in {"ProcessingElements", "Finalized"}
  /\ pc = "done" <=> phase = "Finalized"
  /\ (pc = "raised" /\ error # "CallbackError") => phase \in {"Rasterizing", "Partitioning"}

\* C17 (as claimed): at every point at most one region-extraction temporary
\* file exists, and the file of an element is gone once its description has
\* returned and been cleaned up, before the next element begins.
C17_OneTempFileAtATime ==
  /\ Cardinality(tempFiles) <= 1
  /\ pc \in {"loop", "extract", "filter"} => tempFiles = {}

\* the crop box of an element with a polygon on a rasterized page is at least
\* 50 pixels in width and in height
CropAtLeastMinimum(el, images) ==
  /\ el.points # <<>>
  /\ PageIndex(el.page_number) < Len(images)
  /\ LET b == CropBox(el.points, images[PageIndex(el.page_number) + 1])
     IN  /\ b.right - b.left >= MIN_WIDTH
         /\ b.bottom - b.top >= MIN_HEIGHT

\* C18 (as claimed): the crop box is rejected for size exactly when its width
\* or height is below 50 pixels: a box of 50 pixels or more in both, 50
\* included, is cropped and a temporary file is made for it.
C18_RejectedBelowFiftyOnly ==
  \A i \in Processed :
    LET el == elements[i + 1] IN
    Branch(el) \in {"image", "formula"} =>
      /\ CropAtLeastMinimum(el, pdf_images) => env[i + 1] # Unset
      /\ CropBelowMinimum(el, pdf_images) => env[i + 1] = Unset

\* C19 (as claimed): the callback only observes: whatever it does when
\* called, failing included, process_pdf goes on as without it, so no
\* exception of the callback ends a run.
C19_CallbackObservational == error # "CallbackError"
====
